------------------------------ MODULE Spec2Model ------------------------------
(***************************************************************************)
(* Stock management backend (stock_backend/src/api/main.py): the admin     *)
(* session table, the in-memory category and product collections, and the  *)
(* HTTP handlers that read and mutate them.                                 *)
(*                                                                         *)
(* Spec     runs the handlers one request at a time (each handler is one   *)
(*          atomic action).                                                *)
(* SpecConc runs requests on worker threads: FastAPI executes `def` path   *)
(*          operations in a thread pool, so handlers interleave between    *)
(*          their statements.                                              *)
(***************************************************************************)
EXTENDS Integers, Sequences, FiniteSets, TLC

VARIABLES
  ADMIN_SESSIONS,   \* main.py:32   token -> username
  CATEGORIES,       \* main.py:115  list of Category
  PRODUCTS,         \* main.py:128  list of Product
  last,             \* Spec: the last request served and the response it got
  nops,             \* Spec: store-changing requests served; SpecConc: requests begun
  history,          \* SpecHist: the requests that changed a store, in order
  pc,               \* SpecConc: worker thread -> the statement it is about to run
  frame,            \* SpecConc: worker thread -> the locals of its handler
  resp              \* SpecConc: worker thread -> the last response it sent

vars == <<ADMIN_SESSIONS, CATEGORIES, PRODUCTS, last, nops, history, pc, frame, resp>>

stores == <<ADMIN_SESSIONS, CATEGORIES, PRODUCTS>>

-------------------------------------------------------------------------------
(* Bounds of the exploration.                                              *)

\* Spec: requests that change a store are followed up to this depth.
MaxOps == 3

\* SpecConc: requests begun, over all worker threads.
MaxReqs == 3

\* SpecDrain: store-changing requests followed: a login, the deletion of
\* every seed category, then one category and one product created.
MaxDrain == 13

\* SpecHist: store-changing requests followed and kept in the history.
MaxHist == 4

-------------------------------------------------------------------------------
(* Configuration and seed data.                                            *)

ADMIN_USERNAME == "admin"
ADMIN_PASSWORD == "admin"

SeedCategories ==
  << [id |-> 1, name |-> "Beverages"],
     [id |-> 2, name |-> "Snacks"],
     [id |-> 3, name |-> "Meat"],
     [id |-> 4, name |-> "Produce"],
     [id |-> 5, name |-> "Dairy"],
     [id |-> 6, name |-> "Bakery"],
     [id |-> 7, name |-> "Frozen Foods"],
     [id |-> 8, name |-> "Canned Goods"],
     [id |-> 9, name |-> "Condiments"],
     [id |-> 10, name |-> "Cleaning Supplies"] >>

SeedProducts ==
  << [id |-> 1, name |-> "Apple Juice", category_id |-> 1,
      image_url |-> "https://via.placeholder.com/150?text=Apple+Juice", quantity |-> 10],
     [id |-> 2, name |-> "Orange Soda", category_id |-> 1,
      image_url |-> "https://via.placeholder.com/150?text=Orange+Soda", quantity |-> 30],
     [id |-> 3, name |-> "Bottled Water", category_id |-> 1,
      image_url |-> "https://via.placeholder.com/150?text=Bottled+Water", quantity |-> 50],
     [id |-> 4, name |-> "Lemonade", category_id |-> 1,
      image_url |-> "https://via.placeholder.com/150?text=Lemonade", quantity |-> 12],
     [id |-> 5, name |-> "Iced Tea", category_id |-> 1,
      image_url |-> "https://via.placeholder.com/150?text=Iced+Tea", quantity |-> 8],
     [id |-> 6, name |-> "Cookies", category_id |-> 2,
      image_url |-> "https://via.placeholder.com/150?text=Cookies", quantity |-> 15],
     [id |-> 7, name |-> "Potato Chips", category_id |-> 2,
      image_url |-> "https://via.placeholder.com/150?text=Potato+Chips", quantity |-> 25],
     [id |-> 8, name |-> "Pretzels", category_id |-> 2,
      image_url |-> "https://via.placeholder.com/150?text=Pretzels", quantity |-> 7],
     [id |-> 9, name |-> "Popcorn", category_id |-> 2,
      image_url |-> "https://via.placeholder.com/150?text=Popcorn", quantity |-> 30],
     [id |-> 10, name |-> "Peanuts", category_id |-> 2,
      image_url |-> "https://via.placeholder.com/150?text=Peanuts", quantity |-> 22],
     [id |-> 11, name |-> "Chicken Breast", category_id |-> 3,
      image_url |-> "https://via.placeholder.com/150?text=Chicken+Breast", quantity |-> 14],
     [id |-> 12, name |-> "Beef Steak", category_id |-> 3,
      image_url |-> "https://via.placeholder.com/150?text=Beef+Steak", quantity |-> 6],
     [id |-> 13, name |-> "Turkey Slices", category_id |-> 3,
      image_url |-> "https://via.placeholder.com/150?text=Turkey+Slices", quantity |-> 16],
     [id |-> 14, name |-> "Bacon", category_id |-> 3,
      image_url |-> "https://via.placeholder.com/150?text=Bacon", quantity |-> 8],
     [id |-> 15, name |-> "Ham", category_id |-> 3,
      image_url |-> "https://via.placeholder.com/150?text=Ham", quantity |-> 9],
     [id |-> 16, name |-> "Bananas", category_id |-> 4,
      image_url |-> "https://via.placeholder.com/150?text=Bananas", quantity |-> 13],
     [id |-> 17, name |-> "Apples", category_id |-> 4,
      image_url |-> "https://via.placeholder.com/150?text=Apples", quantity |-> 17],
     [id |-> 18, name |-> "Carrots", category_id |-> 4,
      image_url |-> "https://via.placeholder.com/150?text=Carrots", quantity |-> 28],
     [id |-> 19, name |-> "Tomatoes", category_id |-> 4,
      image_url |-> "https://via.placeholder.com/150?text=Tomatoes", quantity |-> 19],
     [id |-> 20, name |-> "Lettuce", category_id |-> 4,
      image_url |-> "https://via.placeholder.com/150?text=Lettuce", quantity |-> 11],
     [id |-> 21, name |-> "Milk", category_id |-> 5,
      image_url |-> "https://via.placeholder.com/150?text=Milk", quantity |-> 10],
     [id |-> 22, name |-> "Cheese", category_id |-> 5,
      image_url |-> "https://via.placeholder.com/150?text=Cheese", quantity |-> 6],
     [id |-> 23, name |-> "Yogurt", category_id |-> 5,
      image_url |-> "https://via.placeholder.com/150?text=Yogurt", quantity |-> 8],
     [id |-> 24, name |-> "Butter", category_id |-> 5,
      image_url |-> "https://via.placeholder.com/150?text=Butter", quantity |-> 5],
     [id |-> 25, name |-> "Eggs (Dozen)", category_id |-> 5,
      image_url |-> "https://via.placeholder.com/150?text=Eggs", quantity |-> 31],
     [id |-> 26, name |-> "White Bread", category_id |-> 6,
      image_url |-> "https://via.placeholder.com/150?text=White+Bread", quantity |-> 20],
     [id |-> 27, name |-> "Croissant", category_id |-> 6,
      image_url |-> "https://via.placeholder.com/150?text=Croissant", quantity |-> 10],
     [id |-> 28, name |-> "Bagel", category_id |-> 6,
      image_url |-> "https://via.placeholder.com/150?text=Bagel", quantity |-> 15],
     [id |-> 29, name |-> "Multigrain Loaf", category_id |-> 6,
      image_url |-> "https://via.placeholder.com/150?text=Multigrain+Loaf", quantity |-> 8],
     [id |-> 30, name |-> "Donuts", category_id |-> 6,
      image_url |-> "https://via.placeholder.com/150?text=Donuts", quantity |-> 13],
     [id |-> 31, name |-> "Frozen Pizza", category_id |-> 7,
      image_url |-> "https://via.placeholder.com/150?text=Frozen+Pizza", quantity |-> 8],
     [id |-> 32, name |-> "Ice Cream", category_id |-> 7,
      image_url |-> "https://via.placeholder.com/150?text=Ice+Cream", quantity |-> 23],
     [id |-> 33, name |-> "Waffles", category_id |-> 7,
      image_url |-> "https://via.placeholder.com/150?text=Waffles", quantity |-> 10],
     [id |-> 34, name |-> "Vegetable Mix", category_id |-> 7,
      image_url |-> "https://via.placeholder.com/150?text=Vegetable+Mix", quantity |-> 16],
     [id |-> 35, name |-> "French Fries", category_id |-> 7,
      image_url |-> "https://via.placeholder.com/150?text=French+Fries", quantity |-> 21],
     [id |-> 36, name |-> "Canned Beans", category_id |-> 8,
      image_url |-> "https://via.placeholder.com/150?text=Canned+Beans", quantity |-> 27],
     [id |-> 37, name |-> "Canned Corn", category_id |-> 8,
      image_url |-> "https://via.placeholder.com/150?text=Canned+Corn", quantity |-> 18],
     [id |-> 38, name |-> "Tuna", category_id |-> 8,
      image_url |-> "https://via.placeholder.com/150?text=Tuna", quantity |-> 20],
     [id |-> 39, name |-> "Tomato Soup", category_id |-> 8,
      image_url |-> "https://via.placeholder.com/150?text=Tomato+Soup", quantity |-> 12],
     [id |-> 40, name |-> "Chili", category_id |-> 8,
      image_url |-> "https://via.placeholder.com/150?text=Chili", quantity |-> 8],
     [id |-> 41, name |-> "Ketchup", category_id |-> 9,
      image_url |-> "https://via.placeholder.com/150?text=Ketchup", quantity |-> 14],
     [id |-> 42, name |-> "Mayonnaise", category_id |-> 9,
      image_url |-> "https://via.placeholder.com/150?text=Mayonnaise", quantity |-> 6],
     [id |-> 43, name |-> "Mustard", category_id |-> 9,
      image_url |-> "https://via.placeholder.com/150?text=Mustard", quantity |-> 11],
     [id |-> 44, name |-> "Soy Sauce", category_id |-> 9,
      image_url |-> "https://via.placeholder.com/150?text=Soy+Sauce", quantity |-> 5],
     [id |-> 45, name |-> "BBQ Sauce", category_id |-> 9,
      image_url |-> "https://via.placeholder.com/150?text=BBQ+Sauce", quantity |-> 8],
     [id |-> 46, name |-> "Detergent", category_id |-> 10,
      image_url |-> "https://via.placeholder.com/150?text=Detergent", quantity |-> 10],
     [id |-> 47, name |-> "Sponge", category_id |-> 10,
      image_url |-> "https://via.placeholder.com/150?text=Sponge", quantity |-> 18],
     [id |-> 48, name |-> "Glass Cleaner", category_id |-> 10,
      image_url |-> "https://via.placeholder.com/150?text=Glass+Cleaner", quantity |-> 11],
     [id |-> 49, name |-> "Disinfectant", category_id |-> 10,
      image_url |-> "https://via.placeholder.com/150?text=Disinfectant", quantity |-> 12],
     [id |-> 50, name |-> "Broom", category_id |-> 10,
      image_url |-> "https://via.placeholder.com/150?text=Broom", quantity |-> 4],
     [id |-> 51, name |-> "Herbal Tea", category_id |-> 1,
      image_url |-> "https://via.placeholder.com/150?text=Herbal+Tea", quantity |-> 12],
     [id |-> 52, name |-> "Granola Bar", category_id |-> 2,
      image_url |-> "https://via.placeholder.com/150?text=Granola+Bar", quantity |-> 21],
     [id |-> 53, name |-> "Salami", category_id |-> 3,
      image_url |-> "https://via.placeholder.com/150?text=Salami", quantity |-> 10] >>

-------------------------------------------------------------------------------
(* Values.                                                                 *)

\* Optional[T]: None is the empty sequence, a supplied value v is <<v>>.
None == << >>
Some(v) == <<v>>
IsNone(o) == o = << >>
Get(o) == o[1]

\* The values uuid.uuid4() can return.
Tokens == {"uuid-a", "uuid-b"}

\* A request that carries no bearer token (no Authorization header).
NoToken == "no-token"

\* The body of a 204 and of an error response, as far as the model reads it.
NoBody == << >>

-------------------------------------------------------------------------------
(* Helpers over the collections.                                           *)

Ids(seq) == {seq[i].id : i \in 1..Len(seq)}

\* Faulty variant: the smallest element is taken.
MinOf(S, default) ==
  IF S = {} THEN default
  ELSE CHOOSE y \in S : \A z \in S : y <= z
\* max(S, default=default)
MaxOf(S, default) ==
  IF S = {} THEN default
  ELSE CHOOSE y \in S : \A z \in S : z <= y

\* Faulty variant: an id that matches nothing selects the element at the head.
IndexOfIdOrHead(seq, id) ==
  IF \E i \in 1..Len(seq) : seq[i].id = id
  THEN CHOOSE i \in 1..Len(seq) :
         seq[i].id = id /\ \A j \in 1..(i-1) : seq[j].id # id
  ELSE 1
\* next((i for i, x in enumerate(seq) if x.id == id), None), 1-based; 0 is None.
\* Also the position the loops `for x in seq: if x.id == id:` stop at.
IndexOfId(seq, id) ==
  IF \E i \in 1..Len(seq) : seq[i].id = id
  THEN CHOOSE i \in 1..Len(seq) :
         seq[i].id = id /\ \A j \in 1..(i-1) : seq[j].id # id
  ELSE 0

\* Faulty variant: the element at the head is removed, whatever idx is.
PopHead(seq, idx) == SubSeq(seq, 2, Len(seq))
\* list.pop(idx), 1-based.
Pop(seq, idx) == SubSeq(seq, 1, idx - 1) \o SubSeq(seq, idx + 1, Len(seq))

\* Faulty variant: the existence check always passes.
CategoryExistsAlways(cats, category_id) == TRUE

\* any(cat.id == category_id for cat in CATEGORIES)
CategoryExists(cats, category_id) ==
  \E i \in 1..Len(cats) : cats[i].id = category_id

\* Faulty variant: the next id is taken from the length of the list.
NextCategoryIdByLen(cats) == Len(cats) + 1

_get_next_category_id(cats) == MaxOf(Ids(cats), 0) + 1

\* Faulty variant: max() is given 1 as its default.
NextProductIdDefaultOne(prods) == MaxOf(Ids(prods), 1) + 1
_get_next_product_id(prods) == MaxOf(Ids(prods), 0) + 1

\* Faulty variant: no cascade.
WithoutCategoryKeepAll(prods, category_id) == prods

\* [p for p in PRODUCTS if p.category_id != category_id]
WithoutCategory(prods, category_id) ==
  SelectSeq(prods, LAMBDA p : p.category_id # category_id)

-------------------------------------------------------------------------------
(* Session store.                                                          *)

\* Faulty variant: a fixed token.
uuid4Fixed(sessions) == {"uuid-a"}

\* str(uuid.uuid4()): a random 122-bit identifier; modelled as any value the
\* generator has not returned before (every value it returned is a key of
\* the session table, which never loses keys).
uuid4(sessions) == Tokens \ DOMAIN sessions

\* Faulty variant: the new session replaces the table.
StoreSessionOnly(sessions, token, username) == [t \in {token} |-> username]

\* ADMIN_SESSIONS[token] = username
StoreSession(sessions, token, username) ==
  [t \in DOMAIN sessions \cup {token} |->
     IF t = token THEN username ELSE sessions[t]]

\* Faulty variant: `or` for `and`.
CredentialsOkEither(data) ==
  data.username = ADMIN_USERNAME \/ data.password = ADMIN_PASSWORD

\* if data.username == ADMIN_USERNAME and data.password == ADMIN_PASSWORD
CredentialsOk(data) ==
  data.username = ADMIN_USERNAME /\ data.password = ADMIN_PASSWORD

\* Faulty variant: the token is returned in place of the username.
AuthenticateAsToken(sessions, token) ==
  IF token \in DOMAIN sessions
  THEN [ok |-> TRUE, username |-> token]
  ELSE [ok |-> FALSE, username |-> ""]

\* if token in ADMIN_SESSIONS: return ADMIN_SESSIONS[token]; else 401.
\* A request without a token is rejected by oauth2_scheme with the same 401.
authenticate_admin_token(sessions, token) ==
  IF token \in DOMAIN sessions
  THEN [ok |-> TRUE, username |-> sessions[token]]
  ELSE [ok |-> FALSE, username |-> ""]

-------------------------------------------------------------------------------
(* Catalog store: what each handler body does to the two collections and   *)
(* what it returns.  out = [cats, prods, status, body].                    *)

Out(cats, prods, status, body) ==
  [cats |-> cats, prods |-> prods, status |-> status, body |-> body]

NewCategory(cats, data) == [id |-> _get_next_category_id(cats), name |-> data.name]

\* Faulty variant: a name already in the list is refused.
CreateCategoryUniqueName(cats, prods, data) ==
  IF \E i \in 1..Len(cats) : cats[i].name = data.name
  THEN Out(cats, prods, 409, NoBody)
  ELSE LET cat == NewCategory(cats, data)
       IN  Out(Append(cats, cat), prods, 201, cat)
create_category_body(cats, prods, data) ==
  LET cat == NewCategory(cats, data)
  IN  Out(Append(cats, cat), prods, 201, cat)

\* Faulty variant: the renamed category is given a new id.
UpdateCategoryRenumbers(cats, prods, category_id, data) ==
  LET i == IndexOfId(cats, category_id)
  IN  IF i = 0 THEN Out(cats, prods, 404, NoBody)
      ELSE LET cat == [id |-> _get_next_category_id(cats), name |-> data.name]
           IN  Out([cats EXCEPT ![i] = cat], prods, 200, cat)
update_category_body(cats, prods, category_id, data) ==
  LET i == IndexOfId(cats, category_id)
  IN  IF i = 0 THEN Out(cats, prods, 404, NoBody)
      ELSE LET cat == [cats[i] EXCEPT !.name = data.name]
           IN  Out([cats EXCEPT ![i] = cat], prods, 200, cat)

\* Faulty variant: the PATCH answers the category and never assigns the name.
PartialUpdateCategoryReadOnly(cats, prods, category_id, data) ==
  LET i == IndexOfId(cats, category_id)
  IN  IF i = 0 THEN Out(cats, prods, 404, NoBody)
      ELSE Out(cats, prods, 200, cats[i])
partial_update_category_body(cats, prods, category_id, data) ==
  LET i == IndexOfId(cats, category_id)
  IN  IF i = 0 THEN Out(cats, prods, 404, NoBody)
      ELSE LET cat == IF IsNone(data.name) THEN cats[i]
                      ELSE [cats[i] EXCEPT !.name = Get(data.name)]
           IN  Out([cats EXCEPT ![i] = cat], prods, 200, cat)

delete_category_body(cats, prods, category_id) ==
  LET idx == IndexOfId(cats, category_id)
  IN  IF idx = 0 THEN Out(cats, prods, 404, NoBody)
      ELSE Out(Pop(cats, idx), WithoutCategory(prods, category_id), 204, NoBody)

NewProduct(prods, data) ==
  [id |-> _get_next_product_id(prods), name |-> data.name,
   category_id |-> data.category_id, image_url |-> data.image_url,
   quantity |-> data.quantity]

\* Faulty variant: the new product is put at the head of the list.
CreateProductAtHead(cats, prods, data) ==
  IF ~CategoryExists(cats, data.category_id)
  THEN Out(cats, prods, 400, NoBody)
  ELSE LET prod == NewProduct(prods, data)
       IN  Out(cats, <<prod>> \o prods, 201, prod)
create_product_body(cats, prods, data) ==
  IF ~CategoryExists(cats, data.category_id)
  THEN Out(cats, prods, 400, NoBody)
  ELSE LET prod == NewProduct(prods, data)
       IN  Out(cats, Append(prods, prod), 201, prod)

\* Faulty variant: the category is validated as in create_product.
UpdateProductValidated(cats, prods, product_id, data) ==
  LET i == IndexOfId(prods, product_id)
  IN  IF i = 0 THEN Out(cats, prods, 404, NoBody)
      ELSE IF ~CategoryExists(cats, data.category_id)
      THEN Out(cats, prods, 400, NoBody)
      ELSE LET prod == [prods[i] EXCEPT !.name = data.name,
                                        !.category_id = data.category_id,
                                        !.image_url = data.image_url,
                                        !.quantity = data.quantity]
           IN  Out(cats, [prods EXCEPT ![i] = prod], 200, prod)
update_product_body(cats, prods, product_id, data) ==
  LET i == IndexOfId(prods, product_id)
  IN  IF i = 0 THEN Out(cats, prods, 404, NoBody)
      ELSE LET prod == [prods[i] EXCEPT !.name = data.name,
                                        !.category_id = data.category_id,
                                        !.image_url = data.image_url,
                                        !.quantity = data.quantity]
           IN  Out(cats, [prods EXCEPT ![i] = prod], 200, prod)

\* Faulty variant: an omitted quantity is stored as 0.
PartialUpdateProductZeroesQuantity(cats, prods, product_id, data) ==
  LET i == IndexOfId(prods, product_id)
  IN  IF i = 0 THEN Out(cats, prods, 404, NoBody)
      ELSE
        LET p0 == prods[i]
            p1 == IF IsNone(data.name) THEN p0
                  ELSE [p0 EXCEPT !.name = Get(data.name)]
            bad == /\ ~IsNone(data.category_id)
                   /\ ~CategoryExists(cats, Get(data.category_id))
            p2 == IF IsNone(data.category_id) THEN p1
                  ELSE [p1 EXCEPT !.category_id = Get(data.category_id)]
            p3 == IF IsNone(data.image_url) THEN p2
                  ELSE [p2 EXCEPT !.image_url = Get(data.image_url)]
            p4 == IF IsNone(data.quantity) THEN [p3 EXCEPT !.quantity = 0]
                  ELSE [p3 EXCEPT !.quantity = Get(data.quantity)]
        IN  IF bad THEN Out(cats, [prods EXCEPT ![i] = p1], 400, NoBody)
            ELSE Out(cats, [prods EXCEPT ![i] = p4], 200, p4)
\* The statements of the loop body run in source order: the name is assigned
\* before the category check, image_url and quantity after it.
partial_update_product_body(cats, prods, product_id, data) ==
  LET i == IndexOfId(prods, product_id)
  IN  IF i = 0 THEN Out(cats, prods, 404, NoBody)
      ELSE
        LET p0 == prods[i]
            p1 == IF IsNone(data.name) THEN p0
                  ELSE [p0 EXCEPT !.name = Get(data.name)]
            bad == /\ ~IsNone(data.category_id)
                   /\ ~CategoryExists(cats, Get(data.category_id))
            p2 == IF IsNone(data.category_id) THEN p1
                  ELSE [p1 EXCEPT !.category_id = Get(data.category_id)]
            p3 == IF IsNone(data.image_url) THEN p2
                  ELSE [p2 EXCEPT !.image_url = Get(data.image_url)]
            p4 == IF IsNone(data.quantity) THEN p3
                  ELSE [p3 EXCEPT !.quantity = Get(data.quantity)]
        IN  IF bad THEN Out(cats, [prods EXCEPT ![i] = p1], 400, NoBody)
            ELSE Out(cats, [prods EXCEPT ![i] = p4], 200, p4)

\* Faulty variant: the products of the same category go with it.
DeleteProductAndSiblings(cats, prods, product_id) ==
  LET idx == IndexOfId(prods, product_id)
  IN  IF idx = 0 THEN Out(cats, prods, 404, NoBody)
      ELSE Out(cats, WithoutCategory(prods, prods[idx].category_id), 204, NoBody)
delete_product_body(cats, prods, product_id) ==
  LET idx == IndexOfId(prods, product_id)
  IN  IF idx = 0 THEN Out(cats, prods, 404, NoBody)
      ELSE Out(cats, Pop(prods, idx), 204, NoBody)

\* Faulty variant: the route is not protected.
Unprotected(sessions, token, cats, prods, out) == out

\* dependencies=[Depends(authenticate_admin_token)]: the dependency runs
\* before the handler body; when it raises, the body is not run.
Protected(sessions, token, cats, prods, out) ==
  IF authenticate_admin_token(sessions, token).ok THEN out
  ELSE Out(cats, prods, 401, NoBody)

-------------------------------------------------------------------------------
(* Requests the clients send.                                              *)

PresentedTokens == Tokens \cup {NoToken}

LoginRequests ==
  [username : {"admin", "root"}, password : {"admin", "letmein"}]

CategoryNames == {"Spices", "Snacks"}

\* Path parameters: a seeded category that is not the newest, the newest
\* seeded category, and the id the first created category gets.
CategoryIdArgs == {Len(SeedCategories) - 1, Len(SeedCategories), Len(SeedCategories) + 1}

\* The newest seeded product and the id the first created product gets.
ProductIdArgs == {Len(SeedProducts), Len(SeedProducts) + 1}

CategoryCreates == [name : CategoryNames]

CategoryUpdates == [name : {None} \cup {Some(n) : n \in CategoryNames}]

ProductCategoryArgs == {Len(SeedCategories), Len(SeedCategories) + 1}

ProductCreates ==
  [name : {"Widget"}, category_id : ProductCategoryArgs,
   image_url : {"https://via.placeholder.com/150?text=Widget"}, quantity : {0}]

ProductUpdates ==
  [name : {None, Some("Widget")},
   category_id : {None} \cup {Some(c) : c \in ProductCategoryArgs},
   image_url : {None, Some("https://via.placeholder.com/150?text=Widget")},
   quantity : {None, Some(0)}]

NoData == << >>

-------------------------------------------------------------------------------
(* Spec: one request at a time.                                            *)

\* The worker threads of the pool that runs the `def` handlers.
Threads == {"w1", "w2"}

NoFrame == [op |-> "none", category_id |-> 0, data |-> NoData, idx |-> 0,
            kept |-> << >>, id |-> 0]

NoResponse == [op |-> "none", status |-> 0, body |-> NoBody]

Init ==
  /\ ADMIN_SESSIONS = << >>
  /\ CATEGORIES = SeedCategories
  /\ PRODUCTS = SeedProducts
  /\ last = [op |-> "start", token |-> NoToken, id |-> None, data |-> NoData,
             status |-> 0, body |-> NoBody, changed |-> TRUE]
  /\ nops = 0
  /\ history = << >>
  /\ pc = [t \in Threads |-> "idle"]
  /\ frame = [t \in Threads |-> NoFrame]
  /\ resp = [t \in Threads |-> NoResponse]

\* Serve one request: install the stores the handler leaves and record the
\* request with its response.
Serve(op, token, id, data, sessions, out) ==
  /\ ADMIN_SESSIONS' = sessions
  /\ CATEGORIES' = out.cats
  /\ PRODUCTS' = out.prods
  /\ LET changed == <<sessions, out.cats, out.prods>> # stores
     IN  /\ last' = [op |-> op, token |-> token, id |-> id, data |-> data,
                     status |-> out.status, body |-> out.body,
                     changed |-> changed]
  /\ UNCHANGED <<pc, frame, resp>>

admin_login(data) ==
  IF CredentialsOk(data)
  THEN \E token \in uuid4(ADMIN_SESSIONS) :
         Serve("admin_login", NoToken, None, data,
               StoreSession(ADMIN_SESSIONS, token, data.username),
               Out(CATEGORIES, PRODUCTS, 200,
                   [access_token |-> token, token_type |-> "bearer"]))
  ELSE Serve("admin_login", NoToken, None, data, ADMIN_SESSIONS,
             Out(CATEGORIES, PRODUCTS, 401, NoBody))

list_categories ==
  Serve("list_categories", NoToken, None, NoData, ADMIN_SESSIONS,
        Out(CATEGORIES, PRODUCTS, 200, CATEGORIES))

\* Faulty variant: the listing leaves out the products with no stock.
list_products_in_stock ==
  Serve("list_products", NoToken, None, NoData, ADMIN_SESSIONS,
        Out(CATEGORIES, PRODUCTS, 200,
            SelectSeq(PRODUCTS, LAMBDA p : p.quantity > 0)))
list_products ==
  Serve("list_products", NoToken, None, NoData, ADMIN_SESSIONS,
        Out(CATEGORIES, PRODUCTS, 200, PRODUCTS))

\* Faulty variant: a request that fails authentication closes every session.
AdminEvicting(op, token, id, data, out) ==
  Serve(op, token, id, data,
        IF authenticate_admin_token(ADMIN_SESSIONS, token).ok
        THEN ADMIN_SESSIONS ELSE << >>,
        Protected(ADMIN_SESSIONS, token, CATEGORIES, PRODUCTS, out))
Admin(op, token, id, data, out) ==
  Serve(op, token, id, data, ADMIN_SESSIONS,
        Protected(ADMIN_SESSIONS, token, CATEGORIES, PRODUCTS, out))

create_category(token, data) ==
  Admin("create_category", token, None, data,
        create_category_body(CATEGORIES, PRODUCTS, data))

update_category(token, category_id, data) ==
  Admin("update_category", token, Some(category_id), data,
        update_category_body(CATEGORIES, PRODUCTS, category_id, data))

partial_update_category(token, category_id, data) ==
  Admin("partial_update_category", token, Some(category_id), data,
        partial_update_category_body(CATEGORIES, PRODUCTS, category_id, data))

delete_category(token, category_id) ==
  Admin("delete_category", token, Some(category_id), NoData,
        delete_category_body(CATEGORIES, PRODUCTS, category_id))

create_product(token, data) ==
  Admin("create_product", token, None, data,
        create_product_body(CATEGORIES, PRODUCTS, data))

update_product(token, product_id, data) ==
  Admin("update_product", token, Some(product_id), data,
        update_product_body(CATEGORIES, PRODUCTS, product_id, data))

partial_update_product(token, product_id, data) ==
  Admin("partial_update_product", token, Some(product_id), data,
        partial_update_product_body(CATEGORIES, PRODUCTS, product_id, data))

delete_product(token, product_id) ==
  Admin("delete_product", token, Some(product_id), NoData,
        delete_product_body(CATEGORIES, PRODUCTS, product_id))

\* A client sends one request, up to the depth explored.  A request that
\* changed no store is explored but not continued from: no handler reads
\* `last`, so what can follow it is what can follow the state it was
\* served in.
Within(depth) == nops < depth /\ last.changed

Counted == nops' = IF last'.changed THEN nops + 1 ELSE nops

Step(request) == Within(MaxOps) /\ request /\ Counted /\ UNCHANGED history

Next ==
  \/ \E data \in LoginRequests : Step(admin_login(data))
  \/ Step(list_categories)
  \/ Step(list_products)
  \/ \E token \in PresentedTokens, data \in CategoryCreates :
       Step(create_category(token, data))
  \/ \E token \in PresentedTokens, id \in CategoryIdArgs, data \in CategoryCreates :
       Step(update_category(token, id, data))
  \/ \E token \in PresentedTokens, id \in CategoryIdArgs, data \in CategoryUpdates :
       Step(partial_update_category(token, id, data))
  \/ \E token \in PresentedTokens, id \in CategoryIdArgs :
       Step(delete_category(token, id))
  \/ \E token \in PresentedTokens, data \in ProductCreates :
       Step(create_product(token, data))
  \/ \E token \in PresentedTokens, id \in ProductIdArgs, data \in ProductCreates :
       Step(update_product(token, id, data))
  \/ \E token \in PresentedTokens, id \in ProductIdArgs, data \in ProductUpdates :
       Step(partial_update_product(token, id, data))
  \/ \E token \in PresentedTokens, id \in ProductIdArgs :
       Step(delete_product(token, id))

Spec == Init /\ [][Next]_vars

-------------------------------------------------------------------------------
(* SpecDrain: a client that empties the catalog.  It deletes the category  *)
(* at the head of the list (the cascade removes its products), creates     *)
(* categories and creates products in the category at the head.  It logs   *)
(* in once.                                                                *)

\* The category at the head of the list, and an id that matches none.
HeadCategoryIds(categories) ==
  {categories[i].id : i \in {1} \cap DOMAIN categories} \cup {0}

DrainCategoryCreates == [name : {"Spices"}]

DrainProductCreates(categories) ==
  [name : {"Widget"}, category_id : HeadCategoryIds(categories),
   image_url : {"https://via.placeholder.com/150?text=Widget"},
   quantity : {0}]

DrainStep(request) ==
  Within(MaxDrain) /\ request /\ Counted /\ UNCHANGED history

NextDrain ==
  \/ \E data \in LoginRequests :
       ADMIN_SESSIONS = << >> /\ DrainStep(admin_login(data))
  \/ DrainStep(list_categories)
  \/ DrainStep(list_products)
  \/ \E token \in PresentedTokens, data \in DrainCategoryCreates :
       DrainStep(create_category(token, data))
  \/ \E token \in PresentedTokens, id \in HeadCategoryIds(CATEGORIES) :
       DrainStep(delete_category(token, id))
  \/ \E token \in PresentedTokens, data \in DrainProductCreates(CATEGORIES) :
       DrainStep(create_product(token, data))

SpecDrain == Init /\ [][NextDrain]_vars

-------------------------------------------------------------------------------
(* SpecHist: one request at a time, with the requests that changed a store *)
(* kept in `history`, each with the ids the collections held when it was   *)
(* served.  The client logs in once.                                       *)

Served(request, categories, products) ==
  [request |-> request, categories |-> Ids(categories), products |-> Ids(products)]

Recorded ==
  history' = IF last'.changed
             THEN Append(history, Served(last', CATEGORIES, PRODUCTS))
             ELSE history

HistStep(request) == Within(MaxHist) /\ request /\ Counted /\ Recorded

HistProductCreates == {d \in ProductCreates : d.category_id = Len(SeedCategories)}

\* The ids of Spec and the id of a product in the middle of the list.
HistProductIdArgs == ProductIdArgs \cup {Len(SeedProducts) \div 2}

NextHist ==
  \/ \E data \in LoginRequests :
       ADMIN_SESSIONS = << >> /\ HistStep(admin_login(data))
  \/ HistStep(list_categories)
  \/ HistStep(list_products)
  \/ \E token \in PresentedTokens, data \in DrainCategoryCreates :
       HistStep(create_category(token, data))
  \/ \E token \in PresentedTokens, id \in CategoryIdArgs :
       HistStep(delete_category(token, id))
  \/ \E token \in PresentedTokens, data \in HistProductCreates :
       HistStep(create_product(token, data))
  \/ \E token \in PresentedTokens, id \in HistProductIdArgs :
       HistStep(delete_product(token, id))

SpecHist == Init /\ [][NextHist]_vars

-------------------------------------------------------------------------------
(* SpecConc: requests served by worker threads.  A thread runs one handler *)
(* at a time; between two statements of a handler the other thread may     *)
(* run.  The statements that read or write a shared collection are the     *)
(* steps.                                                                  *)

ConcCategoryIdArgs == {Len(SeedCategories) - 1, Len(SeedCategories)}

ConcCategoryCreates == {d \in CategoryCreates : d.name = "Spices"}

ConcProductCreates == {d \in ProductCreates : d.category_id = Len(SeedCategories)}

Begin(t) == pc[t] = "idle" /\ nops < MaxReqs /\ nops' = nops + 1

At(t, label) == pc[t] = label

\* The statement that ran last and the thread that ran it.
Ran(t, statement) ==
  last' = [op |-> statement, thread |-> t] /\ UNCHANGED history

Goto(t, label) == pc' = [pc EXCEPT ![t] = label]

SetFrame(t, f) == frame' = [frame EXCEPT ![t] = f]

\* The handler returns or raises: the response goes out, the thread is free.
Respond(t, status, body) ==
  /\ resp' = [resp EXCEPT ![t] = [op |-> frame[t].op, status |-> status, body |-> body]]
  /\ pc' = [pc EXCEPT ![t] = "idle"]
  /\ frame' = [frame EXCEPT ![t] = NoFrame]

\* admin_login: the comparison reads constants only and the dictionary store
\* is a single step.
t_admin_login(t, data) ==
  /\ Begin(t)
  /\ IF CredentialsOk(data)
     THEN \E token \in uuid4(ADMIN_SESSIONS) :
            /\ ADMIN_SESSIONS' = StoreSession(ADMIN_SESSIONS, token, data.username)
            /\ resp' = [resp EXCEPT ![t] =
                 [op |-> "admin_login", status |-> 200,
                  body |-> [access_token |-> token, token_type |-> "bearer"]]]
     ELSE /\ ADMIN_SESSIONS' = ADMIN_SESSIONS
          /\ resp' = [resp EXCEPT ![t] =
               [op |-> "admin_login", status |-> 401, body |-> NoBody]]
  /\ UNCHANGED <<CATEGORIES, PRODUCTS, pc, frame>>
  /\ Ran(t, "admin_login")

\* return CATEGORIES
t_list_categories(t) ==
  /\ Begin(t)
  /\ resp' = [resp EXCEPT ![t] =
       [op |-> "list_categories", status |-> 200, body |-> CATEGORIES]]
  /\ UNCHANGED <<ADMIN_SESSIONS, CATEGORIES, PRODUCTS, pc, frame>>
  /\ Ran(t, "list_categories")

\* return PRODUCTS
t_list_products(t) ==
  /\ Begin(t)
  /\ resp' = [resp EXCEPT ![t] =
       [op |-> "list_products", status |-> 200, body |-> PRODUCTS]]
  /\ UNCHANGED <<ADMIN_SESSIONS, CATEGORIES, PRODUCTS, pc, frame>>
  /\ Ran(t, "list_products")

\* The dependency of a protected route, then the entry into the handler.
BeginProtected(t, token, f, label) ==
  /\ Begin(t)
  /\ IF authenticate_admin_token(ADMIN_SESSIONS, token).ok
     THEN /\ Goto(t, label)
          /\ SetFrame(t, f)
          /\ UNCHANGED resp
     ELSE /\ resp' = [resp EXCEPT ![t] = [op |-> f.op, status |-> 401, body |-> NoBody]]
          /\ UNCHANGED <<pc, frame>>
  /\ UNCHANGED <<ADMIN_SESSIONS, CATEGORIES, PRODUCTS>>
  /\ Ran(t, f.op)

t_delete_category(t, token, category_id) ==
  BeginProtected(t, token,
    [NoFrame EXCEPT !.op = "delete_category", !.category_id = category_id],
    "dc_find")

\* idx = next((i for i, cat in enumerate(CATEGORIES) if cat.id == category_id), None)
\* if idx is None: raise HTTPException(404)
t_dc_find(t) ==
  /\ At(t, "dc_find")
  /\ LET idx == IndexOfId(CATEGORIES, frame[t].category_id)
     IN  IF idx = 0 THEN Respond(t, 404, NoBody)
         ELSE /\ Goto(t, "dc_pop")
              /\ SetFrame(t, [frame[t] EXCEPT !.idx = idx])
              /\ UNCHANGED resp
  /\ UNCHANGED <<ADMIN_SESSIONS, CATEGORIES, PRODUCTS, nops>>
  /\ Ran(t, "dc_find")

\* CATEGORIES.pop(idx); IndexError (a 500) when the list got shorter.
t_dc_pop(t) ==
  /\ At(t, "dc_pop")
  /\ IF frame[t].idx > Len(CATEGORIES)
     THEN /\ Respond(t, 500, NoBody)
          /\ UNCHANGED CATEGORIES
     ELSE /\ CATEGORIES' = Pop(CATEGORIES, frame[t].idx)
          /\ Goto(t, "dc_filter")
          /\ UNCHANGED <<frame, resp>>
  /\ UNCHANGED <<ADMIN_SESSIONS, PRODUCTS, nops>>
  /\ Ran(t, "dc_pop")

\* [p for p in PRODUCTS if p.category_id != category_id]
t_dc_filter(t) ==
  /\ At(t, "dc_filter")
  /\ SetFrame(t, [frame[t] EXCEPT !.kept = WithoutCategory(PRODUCTS, frame[t].category_id)])
  /\ Goto(t, "dc_store")
  /\ UNCHANGED <<ADMIN_SESSIONS, CATEGORIES, PRODUCTS, nops, resp>>
  /\ Ran(t, "dc_filter")

\* PRODUCTS = <the list built>; return
t_dc_store(t) ==
  /\ At(t, "dc_store")
  /\ PRODUCTS' = frame[t].kept
  /\ Respond(t, 204, NoBody)
  /\ UNCHANGED <<ADMIN_SESSIONS, CATEGORIES, nops>>
  /\ Ran(t, "dc_store")

t_create_product(t, token, data) ==
  BeginProtected(t, token,
    [NoFrame EXCEPT !.op = "create_product", !.data = data], "cp_check")

\* if not any(cat.id == data.category_id for cat in CATEGORIES): raise 400
t_cp_check(t) ==
  /\ At(t, "cp_check")
  /\ IF ~CategoryExists(CATEGORIES, frame[t].data.category_id)
     THEN Respond(t, 400, NoBody)
     ELSE Goto(t, "cp_id") /\ UNCHANGED <<frame, resp>>
  /\ UNCHANGED <<ADMIN_SESSIONS, CATEGORIES, PRODUCTS, nops>>
  /\ Ran(t, "cp_check")

\* prod = Product(id=_get_next_product_id(), ...)
t_cp_id(t) ==
  /\ At(t, "cp_id")
  /\ SetFrame(t, [frame[t] EXCEPT !.id = _get_next_product_id(PRODUCTS)])
  /\ Goto(t, "cp_append")
  /\ UNCHANGED <<ADMIN_SESSIONS, CATEGORIES, PRODUCTS, nops, resp>>
  /\ Ran(t, "cp_id")

\* PRODUCTS.append(prod); return prod
t_cp_append(t) ==
  /\ At(t, "cp_append")
  /\ LET prod == [NewProduct(PRODUCTS, frame[t].data) EXCEPT !.id = frame[t].id]
     IN  /\ PRODUCTS' = Append(PRODUCTS, prod)
         /\ Respond(t, 201, prod)
  /\ UNCHANGED <<ADMIN_SESSIONS, CATEGORIES, nops>>
  /\ Ran(t, "cp_append")

t_create_category(t, token, data) ==
  BeginProtected(t, token,
    [NoFrame EXCEPT !.op = "create_category", !.data = data], "cc_id")

\* cat = Category(id=_get_next_category_id(), name=data.name)
t_cc_id(t) ==
  /\ At(t, "cc_id")
  /\ SetFrame(t, [frame[t] EXCEPT !.id = _get_next_category_id(CATEGORIES)])
  /\ Goto(t, "cc_append")
  /\ UNCHANGED <<ADMIN_SESSIONS, CATEGORIES, PRODUCTS, nops, resp>>
  /\ Ran(t, "cc_id")

\* CATEGORIES.append(cat); return cat
t_cc_append(t) ==
  /\ At(t, "cc_append")
  /\ LET cat == [NewCategory(CATEGORIES, frame[t].data) EXCEPT !.id = frame[t].id]
     IN  /\ CATEGORIES' = Append(CATEGORIES, cat)
         /\ Respond(t, 201, cat)
  /\ UNCHANGED <<ADMIN_SESSIONS, PRODUCTS, nops>>
  /\ Ran(t, "cc_append")

NextConc ==
  \E t \in Threads :
    \/ \E data \in LoginRequests : t_admin_login(t, data)
    \/ t_list_categories(t)
    \/ t_list_products(t)
    \/ \E token \in PresentedTokens, id \in ConcCategoryIdArgs :
         t_delete_category(t, token, id)
    \/ t_dc_find(t)
    \/ t_dc_pop(t)
    \/ t_dc_filter(t)
    \/ t_dc_store(t)
    \/ \E token \in PresentedTokens, data \in ConcProductCreates :
         t_create_product(t, token, data)
    \/ t_cp_check(t)
    \/ t_cp_id(t)
    \/ t_cp_append(t)
    \/ \E token \in PresentedTokens, data \in ConcCategoryCreates :
         t_create_category(t, token, data)
    \/ t_cc_id(t)
    \/ t_cc_append(t)

SpecConc == Init /\ [][NextConc]_vars


-------------------------------------------------------------------------------
(* Properties.                                                             *)

MutatingOps ==
  {"create_category", "update_category", "partial_update_category",
   "delete_category", "create_product", "update_product",
   "partial_update_product", "delete_product"}

ProductWrites == {"create_product", "update_product", "partial_update_product"}

Success == {200, 201, 204}

\* No two elements of the list share an id.
UniqueIds(seq) == Cardinality(Ids(seq)) = Len(seq)

\* C1: a mutating catalog request whose token is not a key of the session
\* table is answered 401 and leaves both collections unchanged, whatever the
\* target id or category_id it carries.
C1_UnauthorizedFirst ==
  [][(last'.op \in MutatingOps /\ last'.token \notin DOMAIN ADMIN_SESSIONS)
       => /\ last'.status = 401
          /\ CATEGORIES' = CATEGORIES
          /\ PRODUCTS' = PRODUCTS]_vars

\* A delete with a token that was never issued, for a category id that does
\* not exist: 401, not 404.
C1_Witness ==
  /\ last.op = "delete_category"
  /\ last.token \in Tokens \ DOMAIN ADMIN_SESSIONS
  /\ Get(last.id) \notin Ids(CATEGORIES)
  /\ last.status = 401

\* C2: the token a successful login returns is in the session table, mapped
\* to the username that logged in, and no later request removes or remaps an
\* entry of the table.
C2_SessionsPersist ==
  /\ [](last.op = "admin_login" /\ last.status = 200
          => /\ last.body.access_token \in DOMAIN ADMIN_SESSIONS
             /\ ADMIN_SESSIONS[last.body.access_token] = last.data.username
             /\ authenticate_admin_token(ADMIN_SESSIONS, last.body.access_token).ok)
  /\ [][\A t \in DOMAIN ADMIN_SESSIONS :
          /\ t \in DOMAIN ADMIN_SESSIONS'
          /\ ADMIN_SESSIONS'[t] = ADMIN_SESSIONS[t]]_vars

\* An earlier token is still accepted after a further successful login and a
\* catalog request made with it.
C2_Witness ==
  /\ Cardinality(DOMAIN ADMIN_SESSIONS) = 2
  /\ last.op \in MutatingOps
  /\ last.status \in Success
  /\ last.token \in DOMAIN ADMIN_SESSIONS

\* C3: login answers 200 only for the configured username with the configured
\* password; any other pair is answered 401 with no token in the response and
\* leaves the session table unchanged.
C3_LoginNeedsBoth ==
  [][last'.op = "admin_login" =>
       IF last'.data.username = "admin" /\ last'.data.password = "admin"
       THEN last'.status = 200
       ELSE /\ last'.status = 401
            /\ "access_token" \notin DOMAIN last'.body
            /\ ADMIN_SESSIONS' = ADMIN_SESSIONS]_vars

\* The right username with a wrong password is refused.
C3_Witness ==
  /\ last.op = "admin_login"
  /\ last.data.username = ADMIN_USERNAME
  /\ last.data.password # ADMIN_PASSWORD
  /\ last.status = 401

\* C4: a successful login returns a token that was not in the session table,
\* so the table gains exactly one entry and keeps every entry it had.
C4_LoginAddsOneSession ==
  [][(last'.op = "admin_login" /\ last'.status = 200)
       => /\ last'.body.access_token \notin DOMAIN ADMIN_SESSIONS
          /\ Cardinality(DOMAIN ADMIN_SESSIONS') = Cardinality(DOMAIN ADMIN_SESSIONS) + 1
          /\ \A t \in DOMAIN ADMIN_SESSIONS :
               t \in DOMAIN ADMIN_SESSIONS' /\ ADMIN_SESSIONS'[t] = ADMIN_SESSIONS[t]]_vars

\* The second of two successful logins.
C4_Witness ==
  /\ last.op = "admin_login"
  /\ last.status = 200
  /\ Cardinality(DOMAIN ADMIN_SESSIONS) = 2

\* C5: right after a successful create_product, update_product or
\* partial_update_product, the product written references a category that is
\* in the category collection.
C5_WrittenProductHasCategory ==
  (last.op \in ProductWrites /\ last.status \in Success)
    => last.body.category_id \in Ids(CATEGORIES)

\* C6: delete_category on an existing category with a valid token answers 204
\* and removes that category and the products of that category, and nothing
\* else: the other categories and products stay, unchanged and in order.
C6_DeleteCategoryCascades ==
  [][(last'.op = "delete_category" /\ last'.token \in DOMAIN ADMIN_SESSIONS
        /\ Get(last'.id) \in Ids(CATEGORIES))
       => LET id == Get(last'.id)
          IN  /\ last'.status = 204
              /\ id \notin Ids(CATEGORIES')
              /\ \A i \in 1..Len(PRODUCTS') : PRODUCTS'[i].category_id # id
              /\ CATEGORIES' = SelectSeq(CATEGORIES, LAMBDA c : c.id # id)
              /\ PRODUCTS' = SelectSeq(PRODUCTS, LAMBDA p : p.category_id # id)]_vars

\* A category that had products was deleted: the collection got shorter by
\* more than nothing and other products remain.
C6_Witness ==
  /\ last.op = "delete_category"
  /\ last.status = 204
  /\ Len(PRODUCTS) < Len(SeedProducts)
  /\ Len(PRODUCTS) > 0

\* A worker that has removed its category and has not yet replaced PRODUCTS,
\* while products of that category are still in the collection.
MidCascade(d) ==
  /\ pc[d] \in {"dc_filter", "dc_store"}
  /\ ~CategoryExists(CATEGORIES, frame[d].category_id)
  /\ \E i \in 1..Len(PRODUCTS) : PRODUCTS[i].category_id = frame[d].category_id

\* The statements of other requests that read a collection.
Observations == {"list_products", "list_categories", "cp_check"}

\* C7: no other request reads the collections at a moment when the category
\* is already gone from CATEGORIES and its products are still in PRODUCTS.
C7_CascadeAtomic ==
  last.op \in Observations => ~\E d \in Threads \ {last.thread} : MidCascade(d)

\* C8: create_product with a valid token and a category_id that matches no
\* category answers 400 and appends nothing: the product collection, and so
\* the next product id, are as before.
C8_CreateProductBadCategory ==
  [][(last'.op = "create_product" /\ last'.token \in DOMAIN ADMIN_SESSIONS
        /\ last'.data.category_id \notin Ids(CATEGORIES))
       => /\ last'.status = 400
          /\ PRODUCTS' = PRODUCTS
          /\ CATEGORIES' = CATEGORIES]_vars

C8_Witness ==
  /\ last.op = "create_product"
  /\ last.token \in DOMAIN ADMIN_SESSIONS
  /\ last.data.category_id \notin Ids(CATEGORIES)
  /\ last.status = 400

\* C9: partial_update_product with a valid token, an existing product id and
\* a supplied category_id that matches no category answers 400 and leaves the
\* product collection as it was, whatever other fields the request supplies.
C9_PartialUpdateBadCategory ==
  [][(last'.op = "partial_update_product"
        /\ last'.token \in DOMAIN ADMIN_SESSIONS
        /\ Get(last'.id) \in Ids(PRODUCTS)
        /\ ~IsNone(last'.data.category_id)
        /\ Get(last'.data.category_id) \notin Ids(CATEGORIES))
       => /\ last'.status = 400
          /\ PRODUCTS' = PRODUCTS]_vars

\* C10: in every state reached by serving requests one at a time, category
\* ids are pairwise distinct, product ids are pairwise distinct, and every id
\* is a positive integer.
C10_IdsUniquePositive ==
  /\ UniqueIds(CATEGORIES)
  /\ UniqueIds(PRODUCTS)
  /\ \A id \in Ids(CATEGORIES) \cup Ids(PRODUCTS) : id \in Nat /\ id > 0

\* A category was created after an older one had been deleted: the list is
\* as long as the seed and its ids are no longer 1..Len.
C10_Witness ==
  /\ last.op = "create_category"
  /\ last.status = 201
  /\ Len(CATEGORIES) = Len(SeedCategories)
  /\ Ids(CATEGORIES) # 1..Len(CATEGORIES)

-------------------------------------------------------------------------------
(* Claims C11..C20.                                                        *)

\* The id the next create on a collection is given: one more than the
\* largest id in it, 1 when it holds nothing.
OneAboveMax(seq) ==
  IF seq = << >> THEN 1
  ELSE (CHOOSE m \in Ids(seq) : \A k \in Ids(seq) : k <= m) + 1

\* C11: create_category with a valid token always answers 201; the category
\* list afterwards is the previous list with one entry appended, which has
\* the supplied name and the id one above the previous maximum (1 when the
\* list was empty); the products are unchanged; a name already in the list
\* is accepted.
C11_CreateCategoryAppends ==
  [][(last'.op = "create_category" /\ last'.token \in DOMAIN ADMIN_SESSIONS)
       => /\ last'.status = 201
          /\ last'.body = [id |-> OneAboveMax(CATEGORIES), name |-> last'.data.name]
          /\ CATEGORIES' = Append(CATEGORIES, last'.body)
          /\ PRODUCTS' = PRODUCTS]_vars

\* Every category deleted, then the same name created twice: ids 1 and 2.
C11_Witness ==
  /\ last.op = "create_category" /\ last.status = 201
  /\ Len(CATEGORIES) = 2
  /\ CATEGORIES[1] = [id |-> 1, name |-> last.data.name]
  /\ CATEGORIES[2] = [id |-> 2, name |-> last.data.name]
  /\ last.body = CATEGORIES[2]

\* C12: update_category is idempotent: the same request (same id, same
\* name) served twice in a row answers the same category both times, and
\* the second leaves both collections as the first left them.
C12_UpdateCategoryIdempotent ==
  [][(/\ last.op = "update_category" /\ last.status = 200
      /\ last'.op = "update_category" /\ last'.token \in DOMAIN ADMIN_SESSIONS
      /\ last'.id = last.id /\ last'.data = last.data)
       => /\ last'.status = 200
          /\ last'.body = last.body
          /\ CATEGORIES' = CATEGORIES
          /\ PRODUCTS' = PRODUCTS]_vars

\* A seed category renamed, then the same rename served again.
C12_Witness ==
  /\ last.op = "update_category" /\ last.status = 200 /\ ~last.changed
  /\ nops = 2
  /\ Len(CATEGORIES) = Len(SeedCategories)
  /\ \E i \in DOMAIN CATEGORIES :
       /\ CATEGORIES[i] = last.body
       /\ CATEGORIES[i].id = Get(last.id)
       /\ SeedCategories[i].name # last.data.name

\* The requests that changed a store before the last request was served.
Prior ==
  IF last.changed /\ history # << >>
  THEN SubSeq(history, 1, Len(history) - 1) ELSE history

LoggedInFromSeed ==
  /\ Len(Prior) >= 1
  /\ Prior[1].request.op = "admin_login"
  /\ Prior[1].request.data = [username |-> ADMIN_USERNAME, password |-> ADMIN_PASSWORD]

TokenT == Prior[1].request.body.access_token

SpicesCreated ==
  /\ LoggedInFromSeed /\ Len(Prior) >= 2
  /\ Prior[2].request.op = "create_category"
  /\ Prior[2].request.token = TokenT
  /\ Prior[2].request.data = [name |-> "Spices"]

SpicesDeleted ==
  /\ SpicesCreated /\ Len(Prior) >= 3
  /\ Prior[3].request.op = "delete_category"
  /\ Prior[3].request.token = TokenT
  /\ Prior[3].request.id = Some(Len(SeedCategories) + 1)

\* C13: from the seed, a login with (admin, admin) answers 200 with a token
\* T; then create_category without a token answers 401 and changes nothing;
\* create_category("Spices") with T answers 201 with id 11; then
\* delete_category(11) with T answers 204; then list_categories holds no
\* category with id 11.
C13_EndToEnd ==
  /\ (/\ Prior = << >> /\ last.op = "admin_login"
      /\ last.data = [username |-> ADMIN_USERNAME, password |-> ADMIN_PASSWORD])
       => (last.status = 200 /\ "access_token" \in DOMAIN last.body)
  /\ (/\ LoggedInFromSeed /\ Len(Prior) = 1
      /\ last.op = "create_category" /\ last.token = NoToken)
       => (last.status = 401 /\ ~last.changed)
  /\ (/\ LoggedInFromSeed /\ Len(Prior) = 1
      /\ last.op = "create_category" /\ last.token = TokenT
      /\ last.data = [name |-> "Spices"])
       => (last.status = 201 /\ last.body.id = 11)
  /\ (/\ SpicesCreated /\ Len(Prior) = 2
      /\ last.op = "delete_category" /\ last.token = TokenT
      /\ last.id = Some(11))
       => last.status = 204
  /\ (SpicesDeleted /\ Len(Prior) = 3 /\ last.op = "list_categories")
       => (last.status = 200 /\ 11 \notin Ids(last.body) /\ ~last.changed)

\* The scenario served to its end.
C13_Witness ==
  /\ SpicesDeleted /\ Len(Prior) = 3
  /\ Prior[2].request.body.id = 11 /\ Prior[3].request.status = 204
  /\ last.op = "list_categories" /\ last.body = SeedCategories

CategoryIdOps == {"update_category", "partial_update_category", "delete_category"}

ProductIdOps == {"update_product", "partial_update_product", "delete_product"}

\* C14: with a valid token, update_category, partial_update_category and
\* delete_category on an id no category has, and update_product,
\* partial_update_product and delete_product on an id no product has, answer
\* 404 and leave both collections unchanged.
C14_MissingIdNotFound ==
  [][(/\ last'.token \in DOMAIN ADMIN_SESSIONS
      /\ \/ last'.op \in CategoryIdOps /\ Get(last'.id) \notin Ids(CATEGORIES)
         \/ last'.op \in ProductIdOps /\ Get(last'.id) \notin Ids(PRODUCTS))
       => /\ last'.status = 404
          /\ CATEGORIES' = CATEGORIES
          /\ PRODUCTS' = PRODUCTS]_vars

\* A PATCH that names a field, sent to a product id that is not there.
C14_Witness ==
  /\ last.op = "partial_update_product" /\ last.status = 404
  /\ last.token \in DOMAIN ADMIN_SESSIONS
  /\ Get(last.id) \notin Ids(PRODUCTS)
  /\ ~IsNone(last.data.name)

\* C15: list_categories and list_products take no token, always answer 200
\* with the whole current collection, and leave the collections and the
\* sessions unchanged.
C15_ListsReadOnly ==
  [][/\ last'.op = "list_categories"
          => /\ last'.status = 200 /\ last'.body = CATEGORIES
             /\ last'.token = NoToken
             /\ UNCHANGED stores
     /\ last'.op = "list_products"
          => /\ last'.status = 200 /\ last'.body = PRODUCTS
             /\ last'.token = NoToken
             /\ UNCHANGED stores]_vars

\* The products listed after some were deleted.
C15_Witness ==
  /\ last.op = "list_products" /\ last.status = 200
  /\ last.body = PRODUCTS
  /\ Len(PRODUCTS) < Len(SeedProducts)

\* C16: the id assignment of create_category and create_product is atomic:
\* two creates running at once never hold the same next id for the same
\* collection.
C16_NextIdsDistinct ==
  \A t, u \in Threads :
    (t # u /\ pc[t] = pc[u] /\ pc[t] \in {"cc_append", "cp_append"})
      => frame[t].id # frame[u].id

DeletedFrom(e, op) == e.request.op = op /\ e.request.status = 204

CreatedIn(e, op) == e.request.op = op /\ e.request.status = 201

\* The ids held by the collection the request of entry e works on.
IdsBefore(e) ==
  IF e.request.op \in {"create_category", "delete_category"}
  THEN e.categories ELSE e.products

WasHighest(e) == \A k \in IdsBefore(e) : k <= Get(e.request.id)

\* Entry i deletes from a collection, entry j is the next create on it.
NextCreateAfter(i, j, delete, create) ==
  /\ i < j
  /\ DeletedFrom(history[i], delete)
  /\ CreatedIn(history[j], create)
  /\ \A k \in (i+1)..(j-1) : ~CreatedIn(history[k], create)

Reissued(i, j) == history[j].request.body.id = Get(history[i].request.id)

\* Deleting an item that is not the highest never has its id reissued while
\* a higher id is in the collection.
NoReissueBelowHigher(delete, create) ==
  \A i, j \in DOMAIN history :
    (NextCreateAfter(i, j, delete, create) /\ ~WasHighest(history[i])
       /\ Reissued(i, j))
      => \A k \in IdsBefore(history[j]) : k < Get(history[i].request.id)

\* C17 as stated: when the item with the highest id is deleted and a create
\* on that collection follows with no other create in between, the new item
\* receives the deleted item's id; and deleting an item that is not the
\* highest never has its id reissued while a higher id exists.
C17_HighestIdReissued ==
  \A ops \in {<<"delete_category", "create_category">>,
              <<"delete_product", "create_product">>} :
    /\ \A i, j \in DOMAIN history :
         (NextCreateAfter(i, j, ops[1], ops[2]) /\ WasHighest(history[i]))
           => Reissued(i, j)
    /\ NoReissueBelowHigher(ops[1], ops[2])

\* C17 amended: the new item receives an id no greater than the deleted
\* item's id, and exactly that id when the id just below it is still in the
\* collection (or the deleted id was 1 and the collection is empty).
C17_HighestIdReissuedIfNextBelowKept ==
  \A ops \in {<<"delete_category", "create_category">>,
              <<"delete_product", "create_product">>} :
    /\ \A i, j \in DOMAIN history :
         (NextCreateAfter(i, j, ops[1], ops[2]) /\ WasHighest(history[i]))
           => LET d == Get(history[i].request.id)
                  before == IdsBefore(history[j])
              IN  /\ history[j].request.body.id <= d
                  /\ (d - 1 \in before \/ (d = 1 /\ before = {}))
                       <=> Reissued(i, j)
    /\ NoReissueBelowHigher(ops[1], ops[2])

\* Category 10 deleted and the next category created is given id 10.
C17_Witness ==
  \E i, j \in DOMAIN history :
    /\ NextCreateAfter(i, j, "delete_category", "create_category")
    /\ WasHighest(history[i]) /\ Reissued(i, j)
    /\ Get(history[i].request.id) = Len(SeedCategories)

\* C18: create_product with a valid token and the category_id of an existing
\* category answers 201 and appends exactly one product, which carries the
\* four supplied fields and the id one above the largest product id (1 when
\* there is no product); the categories are unchanged.
C18_CreateProductAppends ==
  [][(/\ last'.op = "create_product" /\ last'.token \in DOMAIN ADMIN_SESSIONS
      /\ last'.data.category_id \in Ids(CATEGORIES))
       => /\ last'.status = 201
          /\ last'.body = [id |-> OneAboveMax(PRODUCTS),
                           name |-> last'.data.name,
                           category_id |-> last'.data.category_id,
                           image_url |-> last'.data.image_url,
                           quantity |-> last'.data.quantity]
          /\ PRODUCTS' = Append(PRODUCTS, last'.body)
          /\ CATEGORIES' = CATEGORIES]_vars

\* Every product gone with its category, then a product created: id 1.
C18_Witness ==
  /\ last.op = "create_product" /\ last.status = 201
  /\ last.body.id = 1
  /\ PRODUCTS = <<last.body>>

\* The elements of a sequence other than the one at position i, in order.
Others(seq, i) == [k \in DOMAIN seq \ {i} |-> seq[k]]

\* C19: update_product with a valid token on an existing product id always
\* answers 200 and replaces name, category_id, image_url and quantity by the
\* supplied values, whether or not category_id is the id of a category; its
\* only error is 404 for a missing id; the id of the product, every other
\* product and the categories are unchanged.
C19_PutReplacesUnchecked ==
  [][(last'.op = "update_product" /\ last'.token \in DOMAIN ADMIN_SESSIONS)
       => LET i == IndexOfId(PRODUCTS, Get(last'.id))
          IN  IF i = 0
              THEN last'.status = 404
              ELSE /\ last'.status = 200
                   /\ last'.body = [id |-> PRODUCTS[i].id,
                                    name |-> last'.data.name,
                                    category_id |-> last'.data.category_id,
                                    image_url |-> last'.data.image_url,
                                    quantity |-> last'.data.quantity]
                   /\ PRODUCTS'[i] = last'.body
                   /\ Len(PRODUCTS') = Len(PRODUCTS)
                   /\ Others(PRODUCTS', i) = Others(PRODUCTS, i)
                   /\ CATEGORIES' = CATEGORIES]_vars

\* A PUT that moved a product to a category id that no category has.
C19_Witness ==
  /\ last.op = "update_product" /\ last.status = 200
  /\ last.body.category_id \notin Ids(CATEGORIES)
  /\ \E i \in DOMAIN PRODUCTS : PRODUCTS[i] = last.body

\* What a field of a product is after a PATCH: the supplied value, or the
\* value it had when the field is omitted.
Patched(supplied, previous) ==
  IF supplied = None THEN previous ELSE supplied[1]

\* C20: a partial_update_product that answers 200 changes exactly the
\* supplied fields of the product addressed: a supplied field takes the
\* supplied value, an omitted field keeps its value, the id is unchanged,
\* and every other product and every category is unchanged.
C20_PatchChangesSuppliedOnly ==
  [][(last'.op = "partial_update_product" /\ last'.status = 200)
       => \E i \in DOMAIN PRODUCTS :
            /\ PRODUCTS[i].id = Get(last'.id)
            /\ last'.body =
                 [id |-> PRODUCTS[i].id,
                  name |-> Patched(last'.data.name, PRODUCTS[i].name),
                  category_id |->
                    Patched(last'.data.category_id, PRODUCTS[i].category_id),
                  image_url |->
                    Patched(last'.data.image_url, PRODUCTS[i].image_url),
                  quantity |->
                    Patched(last'.data.quantity, PRODUCTS[i].quantity)]
            /\ Len(PRODUCTS') = Len(PRODUCTS)
            /\ PRODUCTS'[i] = last'.body
            /\ Others(PRODUCTS', i) = Others(PRODUCTS, i)
            /\ CATEGORIES' = CATEGORIES]_vars

\* A PATCH that moved a product to another category and set its quantity,
\* and kept its name and image.
C20_Witness ==
  /\ last.op = "partial_update_product" /\ last.status = 200
  /\ ~IsNone(last.data.category_id) /\ ~IsNone(last.data.quantity)
  /\ IsNone(last.data.name) /\ IsNone(last.data.image_url)
  /\ \E i \in DOMAIN PRODUCTS :
       /\ PRODUCTS[i] = last.body
       /\ PRODUCTS[i].name = SeedProducts[i].name
       /\ PRODUCTS[i].category_id # SeedProducts[i].category_id
       /\ PRODUCTS[i].quantity # SeedProducts[i].quantity

-------------------------------------------------------------------------------
(* Claims C21..C27.                                                        *)

\* C21: delete_product with a valid token on the id of a product answers
\* 204 and removes that one product: the categories are unchanged, and
\* every other product is still there with its fields and in the same
\* relative order.
C21_DeleteProductRemovesOne ==
  [][(/\ last'.op = "delete_product" /\ last'.token \in DOMAIN ADMIN_SESSIONS
      /\ Get(last'.id) \in Ids(PRODUCTS))
       => /\ last'.status = 204
          /\ CATEGORIES' = CATEGORIES
          /\ Len(PRODUCTS') = Len(PRODUCTS) - 1
          /\ \E i \in DOMAIN PRODUCTS :
               /\ PRODUCTS[i].id = Get(last'.id)
               /\ \A k \in DOMAIN PRODUCTS' :
                    PRODUCTS'[k] = IF k < i THEN PRODUCTS[k] ELSE PRODUCTS[k + 1]]_vars

\* A product in the middle of the list deleted: products before and after.
C21_Witness ==
  /\ last.op = "delete_product" /\ last.status = 204
  /\ \E k \in DOMAIN PRODUCTS :
       /\ k > 1 /\ PRODUCTS[k - 1].id < Get(last.id)
       /\ PRODUCTS[k].id > Get(last.id)
  /\ Len(CATEGORIES) = Len(SeedCategories)

\* C22: partial_update_category on the id of a category, with a name,
\* leaves the state and answers the category that update_category with that
\* name would; without a name it answers 200 with the category and leaves
\* both collections unchanged.
C22_PatchCategoryAsPut ==
  [][(/\ last'.op = "partial_update_category"
      /\ last'.token \in DOMAIN ADMIN_SESSIONS
      /\ Get(last'.id) \in Ids(CATEGORIES))
       => IF IsNone(last'.data.name)
          THEN /\ last'.status = 200
               /\ last'.body.id = Get(last'.id)
               /\ \E i \in DOMAIN CATEGORIES : CATEGORIES[i] = last'.body
               /\ CATEGORIES' = CATEGORIES
               /\ PRODUCTS' = PRODUCTS
          ELSE LET put == update_category_body(CATEGORIES, PRODUCTS, Get(last'.id),
                                               [name |-> Get(last'.data.name)])
               IN  /\ last'.status = put.status
                   /\ last'.body = put.body
                   /\ CATEGORIES' = put.cats
                   /\ PRODUCTS' = put.prods]_vars

\* A PATCH with a name that renamed a seed category.
C22_Witness ==
  /\ last.op = "partial_update_category" /\ last.status = 200
  /\ ~IsNone(last.data.name)
  /\ last.changed
  /\ \E i \in DOMAIN CATEGORIES :
       /\ CATEGORIES[i] = [id |-> Get(last.id), name |-> Get(last.data.name)]
       /\ SeedCategories[i].id = Get(last.id)
       /\ SeedCategories[i].name # Get(last.data.name)

IdSeq(seq) == [i \in DOMAIN seq |-> seq[i].id]

\* From old to new, the items that stay keep their relative order and are
\* a prefix of new: the items that are new come after every item that stays.
OrderKept(old, new) ==
  \/ IdSeq(new) = IdSeq(old)
  \/ LET was == Ids(old)
         now == Ids(new)
         stay == SelectSeq(IdSeq(new), LAMBDA k : k \in was)
     IN  /\ SelectSeq(IdSeq(old), LAMBDA k : k \in now) = stay
         /\ SubSeq(IdSeq(new), 1, Len(stay)) = stay

CreateOps == {"create_category", "create_product"}

UpdateOps == {"update_category", "partial_update_category",
              "update_product", "partial_update_product"}

\* C23: both listings are in insertion order after any sequence of requests:
\* a listing answers the list as it is; a create puts the new item last; an
\* update or partial update keeps every item at its position; delete_category
\* with its cascade and delete_product keep the relative order of the items
\* that stay; nothing re-sorts by id.
C23_InsertionOrder ==
  [][/\ OrderKept(CATEGORIES, CATEGORIES')
     /\ OrderKept(PRODUCTS, PRODUCTS')
     /\ last'.op = "list_categories" => last'.body = CATEGORIES'
     /\ last'.op = "list_products" => last'.body = PRODUCTS'
     /\ (last'.op = "create_category" /\ last'.status = 201)
          => CATEGORIES'[Len(CATEGORIES')] = last'.body
     /\ (last'.op = "create_product" /\ last'.status = 201)
          => PRODUCTS'[Len(PRODUCTS')] = last'.body
     /\ last'.op \in UpdateOps
          => /\ IdSeq(CATEGORIES') = IdSeq(CATEGORIES)
             /\ IdSeq(PRODUCTS') = IdSeq(PRODUCTS)]_vars

\* Category 9 deleted, then a category created: the ids listed are
\* 1..8, 10, 11, the new category last.
C23_Witness ==
  /\ last.op = "create_category" /\ last.status = 201
  /\ Len(CATEGORIES) = Len(SeedCategories)
  /\ CATEGORIES[Len(CATEGORIES)] = last.body
  /\ last.body.id = Len(CATEGORIES) + 1
  /\ Len(CATEGORIES) - 1 \notin Ids(CATEGORIES)

\* C24: admin_login, answering 200 or 401, leaves the categories and the
\* products unchanged; every other request, whatever it answers, leaves the
\* session table unchanged.
C24_LoginAndCatalogApart ==
  [][/\ last'.op = "admin_login"
          => (CATEGORIES' = CATEGORIES /\ PRODUCTS' = PRODUCTS)
     /\ last'.op # "admin_login"
          => ADMIN_SESSIONS' = ADMIN_SESSIONS]_vars

\* A login served after the catalog was changed, with a session open.
C24_Witness ==
  /\ last.op = "admin_login" /\ last.status = 200
  /\ Cardinality(DOMAIN ADMIN_SESSIONS) = 2
  /\ CATEGORIES # SeedCategories

\* C25: right after create_category answers a category with id k, no
\* product has category_id k, also when k is the id of a category deleted
\* before and after earlier update_product requests.
C25_NewCategoryOwnsNothing ==
  (last.op = "create_category" /\ last.status = 201)
    => \A i \in DOMAIN PRODUCTS : PRODUCTS[i].category_id # last.body.id

\* C26: when create_product for a category runs together with
\* delete_category for another category, a product that create_product
\* answered with 201 is not lost: once no request is running it is in the
\* product list, as long as its category is still there.
C26_CreatedProductKept ==
  (\A t \in Threads : pc[t] = "idle")
    => \A t \in Threads :
         (/\ resp[t].op = "create_product" /\ resp[t].status = 201
          /\ CategoryExists(CATEGORIES, resp[t].body.category_id))
           => \E i \in DOMAIN PRODUCTS : PRODUCTS[i] = resp[t].body

\* C27: in every reachable state every token of the session table maps to
\* the configured admin username, and authenticating with a token of the
\* table gives that username.
C27_SessionsAreAdmin ==
  \A token \in DOMAIN ADMIN_SESSIONS :
    /\ ADMIN_SESSIONS[token] = ADMIN_USERNAME
    /\ authenticate_admin_token(ADMIN_SESSIONS, token)
         = [ok |-> TRUE, username |-> ADMIN_USERNAME]

\* Two sessions open, a login with another username refused last.
C27_Witness ==
  /\ Cardinality(DOMAIN ADMIN_SESSIONS) = 2
  /\ last.op = "admin_login" /\ last.status = 401
  /\ last.data.username # ADMIN_USERNAME

===============================================================================
